---- MODULE Spec2Model ----
(***************************************************************************)
(* Model of the bedtime story generator (src/main.py): a Streamlit script  *)
(* that is re-executed from main() on every user interaction.  One action  *)
(* of the model is one user interaction: the script run it triggers,       *)
(* including the run started by st.rerun().                                 *)
(*                                                                         *)
(* A script run is computed by threading a run context r through the       *)
(* statements of the script in program order.  r carries the session       *)
(* state, the temporary files on disk, and the ordered log of everything   *)
(* the run did (elements rendered, external calls issued, files touched).  *)
(***************************************************************************)
EXTENDS Integers, Sequences, FiniteSets, TLC

VARIABLES
    session_state,  \* st.session_state
    widgets,        \* the values shown in the generator screen's input widgets
    screen,         \* the screen the last script run rendered
    log,            \* what the last interaction did, in program order
    files,          \* the temporary files on disk
    ntmp,           \* how many temporary files were created so far
    request         \* the last interaction: the button pressed, the services' answers

vars == <<session_state, widgets, screen, log, files, ntmp, request>>

(***************************************************************************)
(* Bounds of the model.                                                    *)
(***************************************************************************)
\* how many leading genres the user picks from
NumOptions == 1
\* how many leading options of each multiselect the user picks from
NumMulti == 1
\* how many temporary files a behaviour may create
MaxTmpFiles == 1

(***************************************************************************)
(* Program constants.                                                      *)
(***************************************************************************)
GENRES == <<"Fantasy", "Adventure", "Fairy Tale", "Science Fiction",
            "Mystery", "Superhero", "Animal Tales", "Mythology">>
TONES == <<"Exciting", "Calm", "Funny", "Inspirational",
           "Mysterious", "Heartwarming">>
SETTINGS == <<"Magical Kingdom", "Outer Space", "Underwater World",
              "Enchanted Forest", "Futuristic City", "Ancient Civilization">>
CHARACTER_TYPES == <<"Human Child", "Animal", "Superhero", "Magical Creature",
                     "Robot", "Mythical Being">>
CHARACTER_TRAITS == <<"Brave", "Curious", "Kind", "Clever", "Adventurous",
                      "Shy", "Funny">>
THEMES == <<"Friendship", "Courage", "Honesty", "Teamwork",
            "Perseverance", "Kindness", "Responsibility", "Acceptance">>
STORY_LENGTHS == <<"Short (5 minutes)", "Medium (10 minutes)",
                   "Long (15 minutes)">>
max_selections == 3

\* Python's None, and the truth value Python gives a str-or-None and a list
None == "None"
TruthyStr(v) == v # None /\ v # ""
TruthyList(l) == Len(l) > 0

\* the client object built from a key
OpenAI(api_key) == "OpenAI(" \o api_key \o ")"

(***************************************************************************)
(* Inputs.                                                                 *)
(***************************************************************************)
Min(a, b) == IF a < b THEN a ELSE b

\* the options of a widget the user picks from
Offered(options, n) == {options[i] : i \in 1..Min(n, Len(options))}

Range(l) == {l[i] : i \in DOMAIN l}

Remove(l, v) == SelectSeq(l, LAMBDA x : x # v)

\* st.multiselect keeps the chosen options in the order they were chosen; one
\* edit adds an option not yet chosen, unless maxsel are chosen already, or
\* removes a chosen one
multiselect_edits(cur, options, maxsel) ==
    {Append(cur, o) : o \in {x \in Offered(options, NumMulti) :
                                x \notin Range(cur) /\ Len(cur) < maxsel}}
    \cup {Remove(cur, o) : o \in Range(cur)}

\* st.text_input / st.text_area return what was typed, unstripped
ApiKeys == {"", "sk-good", "sk-other"}
CharacterNames == {"", "Luna", " "}
AdditionalDetails == {"", "a red kite"}

\* what the text-generation service may answer
StoryTexts == {"", "Once upon a time", "The end"}

NoClick == [widget |-> "none"]

(***************************************************************************)
(* Run context.                                                            *)
(***************************************************************************)
\* every entry of the log also records the value api_key_submitted had when
\* the entry was made
Emit(r, ev, arg) ==
    [r EXCEPT !.log = Append(@, [ev |-> ev, arg |-> arg,
                                 accepted |-> r.ss.api_key_submitted])]

\* st.title of either screen: the first element of the page
title(r, name) == Emit([r EXCEPT !.screen = name], "title", name)

\* st.rerun(): stop this run and schedule a new one
rerun(r) == [r EXCEPT !.rerun = TRUE]

SetState(r, key, val) == [r EXCEPT !.ss[key] = val]

init_session_state(r) ==
    LET ss == r.ss
        keys == DOMAIN ss \cup {"api_key_submitted", "client", "current_story"}
        dflt(k) == IF k = "api_key_submitted" THEN FALSE ELSE None
    IN  [r EXCEPT !.ss = [k \in keys |-> IF k \in DOMAIN ss THEN ss[k] ELSE dflt(k)]]

(***************************************************************************)
(* Credential gate.                                                        *)
(***************************************************************************)
\* validate_api_key without the except branch's False
validate_api_key_always_true(r, api_key, raises) ==
    LET r1 == Emit(r, "call", [svc |-> "validate", client |-> OpenAI(api_key),
                                input |-> <<"test">>])
    IN  [r |-> r1, ret |-> TRUE]

\* validate_api_key: one minimal chat completion with a client built from the
\* key; True iff it does not raise
validate_api_key(r, api_key, raises) ==
    LET r1 == Emit(r, "call", [svc |-> "validate", client |-> OpenAI(api_key),
                                input |-> <<"test">>])
    IN  [r |-> r1, ret |-> ~raises]

\* api_key_form without the assignment of session_state.client
api_key_form_no_client(r, click, env) ==
    LET r1 == title(r, "gate")
        submitted == click.widget = "submit"
    IN  IF submitted
        THEN IF TruthyStr(click.api_key)
             THEN LET v == validate_api_key(r1, click.api_key, env.validate_raises)
                  IN  IF v.ret
                      THEN rerun(SetState(v.r, "api_key_submitted", TRUE))
                      ELSE Emit(v.r, "error", "Invalid API key. Please check and try again.")
             ELSE Emit(r1, "error", "Please enter an API key.")
        ELSE r1

api_key_form(r, click, env) ==
    LET r1 == title(r, "gate")
        submitted == click.widget = "submit"
    IN  IF submitted
        THEN IF TruthyStr(click.api_key)
             THEN LET v == validate_api_key(r1, click.api_key, env.validate_raises)
                  IN  IF v.ret
                      THEN rerun(SetState(SetState(v.r, "client", OpenAI(click.api_key)),
                                          "api_key_submitted", TRUE))
                      ELSE Emit(v.r, "error", "Invalid API key. Please check and try again.")
             ELSE Emit(r1, "error", "Please enter an API key.")
        ELSE r1

(***************************************************************************)
(* Text generation and speech synthesis clients.                           *)
(***************************************************************************)
\* sep.join(list), as the sequence of the pieces of the resulting string
RECURSIVE join(_, _)
join(sep, l) ==
    IF Len(l) = 0 THEN <<>>
    ELSE IF Len(l) = 1 THEN <<l[1]>>
    ELSE <<l[1], sep>> \o join(sep, Tail(l))

\* the f-string of generate_content, as the sequence of its literal pieces
\* and interpolated values
Prompt(story_params) ==
    <<"Write a bedtime story with the following specifications:",
      "Genre: ", story_params.genre,
      "Tone: ", story_params.tone,
      "Setting: ", story_params.setting,
      "Main Character: A ", story_params.character_type, " who is ">>
    \o join(", ", story_params.character_traits)
    \o <<"Character Name: ", story_params.character_name,
         "Themes to include: ">>
    \o join(", ", story_params.themes)
    \o <<"Story Length: ", story_params.length,
         "Additional details to incorporate: ",
         IF TruthyStr(story_params.additional_details)
            THEN story_params.additional_details ELSE "None",
         "The story should be engaging and appropriate for children at bedtime.",
         "Make sure to incorporate the selected themes naturally into the story.",
         "If specific character names are provided, use them appropriately in the story.">>

\* generate_content issuing the request a second time when the first raises
generate_content_retry(r, client, story_params, env) ==
    LET prompt == Prompt(story_params)
        r1 == Emit(r, "call", [svc |-> "text", client |-> client, input |-> prompt])
        r2 == Emit(r1, "call", [svc |-> "text", client |-> client, input |-> prompt])
    IN  IF env.text_raises
        THEN [r |-> Emit(r2, "error", "Error generating story"), ret |-> None]
        ELSE [r |-> r1, ret |-> env.text_content]

generate_content(r, client, story_params, env) ==
    LET prompt == Prompt(story_params)
        r1 == Emit(r, "call", [svc |-> "text", client |-> client, input |-> prompt])
    IN  IF env.text_raises
        THEN [r |-> Emit(r1, "error", "Error generating story"), ret |-> None]
        ELSE [r |-> r1, ret |-> env.text_content]

\* the name of the n-th temporary file
TmpName(n) == "tmp" \o ToString(n) \o ".mp3"

\* tempfile.NamedTemporaryFile(delete=False, suffix='.mp3')
NamedTemporaryFile(r) ==
    LET name == TmpName(r.ntmp + 1)
    IN  [r |-> Emit([r EXCEPT !.ntmp = @ + 1, !.files = @ \cup {name}],
                    "tmp_create", name),
         name |-> name]

generate_audio(r, client, text, env) ==
    LET t == NamedTemporaryFile(r)
        r1 == Emit(t.r, "call", [svc |-> "speech", client |-> client, input |-> text])
    IN  IF env.speech_raises
        THEN [r |-> Emit(r1, "error", "Error generating audio"), ret |-> None]
        ELSE [r |-> Emit(r1, "stream_to_file", t.name), ret |-> t.name]

\* os.unlink
unlink(r, path) == Emit([r EXCEPT !.files = @ \ {path}], "unlink", path)

\* an element that reads the file at path when it is created
ReadFile(r, ev, path) == Emit(r, ev, [path |-> path, readable |-> path \in r.files])

(***************************************************************************)
(* Story generator screen.                                                 *)
(***************************************************************************)
\* all(...) with themes left out of the list
all_required_no_themes(w) ==
    /\ TruthyStr(w.genre)
    /\ TruthyStr(w.tone)
    /\ TruthyStr(w.setting)
    /\ TruthyStr(w.character_type)
    /\ TruthyList(w.character_traits)

\* all([genre, tone, setting, character_type, character_traits, themes])
all_required(w) ==
    /\ TruthyStr(w.genre)
    /\ TruthyStr(w.tone)
    /\ TruthyStr(w.setting)
    /\ TruthyStr(w.character_type)
    /\ TruthyList(w.character_traits)
    /\ TruthyList(w.themes)

\* story_params without the placeholder for an empty name
StoryParams_no_placeholder(w) ==
    [genre |-> w.genre,
     tone |-> w.tone,
     setting |-> w.setting,
     character_name |-> w.character_name,
     character_type |-> w.character_type,
     character_traits |-> w.character_traits,
     themes |-> w.themes,
     length |-> w.length,
     additional_details |-> w.additional_details]

\* the story_params dict built from the widget values w
StoryParams(w) ==
    [genre |-> w.genre,
     tone |-> w.tone,
     setting |-> w.setting,
     character_name |-> IF TruthyStr(w.character_name)
                           THEN w.character_name ELSE "the protagonist",
     character_type |-> w.character_type,
     character_traits |-> w.character_traits,
     themes |-> w.themes,
     length |-> w.length,
     additional_details |-> w.additional_details]

\* the body of `if audio_file:`
PresentAudio(r, audio_file, generated_content) ==
    LET r1 == Emit(r, "success", "Audio generated successfully!")
        r2 == ReadFile(r1, "audio", audio_file)
        r3 == ReadFile(r2, "download_audio", audio_file)
        r4 == Emit(r3, "download_text", generated_content)
    IN  unlink(r4, audio_file)

\* the body of `if generated_content:`
PresentStory(r, generated_content, env) ==
    LET r1 == SetState(r, "current_story", generated_content)
        r2 == Emit(r1, "success", "Story generated successfully!")
        r3 == Emit(r2, "write", generated_content)
        a  == generate_audio(r3, r3.ss.client, generated_content, env)
    IN  IF TruthyStr(a.ret)
        THEN PresentAudio(a.r, a.ret, generated_content)
        ELSE a.r

\* the Generate branch presenting whatever generate_content returned
GenerateStory_unguarded(r, w, env) ==
    IF ~all_required(w)
    THEN Emit(r, "warning", "Please fill in all required fields")
    ELSE LET g == generate_content(r, r.ss.client, StoryParams(w), env)
         IN  PresentStory(g.r, g.ret, env)

\* the body of `if st.button("Generate Story"):`
GenerateStory(r, w, env) ==
    IF ~all_required(w)
    THEN Emit(r, "warning", "Please fill in all required fields")
    ELSE LET g == generate_content(r, r.ss.client, StoryParams(w), env)
         IN  IF TruthyStr(g.ret)
             THEN PresentStory(g.r, g.ret, env)
             ELSE g.r

\* the screen with a "Change API Key" that does not call st.rerun()
story_generator_interface_no_rerun(r, click, env) ==
    LET r1 == title(r, "generator")
    IN  IF click.widget = "change"
        THEN SetState(SetState(r1, "api_key_submitted", FALSE), "client", None)
        ELSE IF click.widget = "generate"
        THEN GenerateStory(r1, r1.w, env)
        ELSE r1

\* the screen with a "Change API Key" that keeps the stored client
story_generator_interface_keep_client(r, click, env) ==
    LET r1 == title(r, "generator")
    IN  IF click.widget = "change"
        THEN rerun(SetState(r1, "api_key_submitted", FALSE))
        ELSE IF click.widget = "generate"
        THEN GenerateStory(r1, r1.w, env)
        ELSE r1

story_generator_interface(r, click, env) ==
    LET r1 == title(r, "generator")
    IN  IF click.widget = "change"
        THEN rerun(SetState(SetState(r1, "api_key_submitted", FALSE), "client", None))
        ELSE IF click.widget = "generate"
        THEN GenerateStory(r1, r1.w, env)
        ELSE r1

main(r, click, env) ==
    LET r1 == init_session_state(r)
    IN  IF ~r1.ss.api_key_submitted
        THEN api_key_form(r1, click, env)
        ELSE story_generator_interface(r1, click, env)

(***************************************************************************)
(* One user interaction: the script run it triggers and, when that run     *)
(* ends in st.rerun(), the run that follows with no widget activated.      *)
(***************************************************************************)
Context(ss, w, fs, n) ==
    [ss |-> ss, w |-> w, screen |-> None, log |-> <<>>, files |-> fs,
     ntmp |-> n, rerun |-> FALSE]

Interaction(ss, w, fs, n, click, env) ==
    LET r1 == main(Context(ss, w, fs, n), click, env)
    IN  IF r1.rerun
        THEN main([r1 EXCEPT !.rerun = FALSE, !.screen = None], NoClick, env)
        ELSE r1

\* the values the generator screen's input widgets show when first rendered
DefaultWidgets ==
    [genre |-> GENRES[1], tone |-> TONES[1], setting |-> SETTINGS[1],
     character_name |-> "", character_type |-> CHARACTER_TYPES[1],
     character_traits |-> <<>>, themes |-> <<>>,
     length |-> STORY_LENGTHS[1], additional_details |-> ""]

\* the end of an interaction: the page shows what the last run rendered; the
\* input widgets of a screen that was not rendered lose their values
Commit(r, click, env) ==
    /\ request' = [click |-> click, env |-> env]
    /\ session_state' = r.ss
    /\ screen' = r.screen
    /\ log' = r.log
    /\ files' = r.files
    /\ ntmp' = r.ntmp
    /\ widgets' = IF r.screen = "generator" THEN r.w ELSE DefaultWidgets

\* what the services answer during one interaction
QuietEnv ==
    [validate_raises |-> FALSE, text_raises |-> FALSE,
     text_content |-> "", speech_raises |-> FALSE]

GenerateEnvs ==
    {[QuietEnv EXCEPT !.text_raises = TRUE]}
    \cup {[QuietEnv EXCEPT !.text_content = c, !.speech_raises = sr] :
            c \in StoryTexts, sr \in BOOLEAN}

\* the first run of a new session
Init ==
    \E r \in {main(Context([k \in {} |-> None], DefaultWidgets, {}, 0),
                   NoClick, QuietEnv)} :
        /\ session_state = r.ss
        /\ screen = r.screen
        /\ log = r.log
        /\ files = r.files
        /\ ntmp = r.ntmp
        /\ widgets = r.w
        /\ request = [click |-> NoClick, env |-> QuietEnv]

\* the user submits the credential form
SubmitApiKey ==
    /\ screen = "gate"
    /\ \E api_key \in ApiKeys, raises \in BOOLEAN :
          LET click == [widget |-> "submit", api_key |-> api_key]
              env == [QuietEnv EXCEPT !.validate_raises = raises]
          IN  \E r \in {Interaction(session_state, widgets, files, ntmp, click, env)} :
                  Commit(r, click, env)

\* the user presses "Change API Key" in the sidebar
ChangeApiKey ==
    /\ screen = "generator"
    /\ \E r \in {Interaction(session_state, widgets, files, ntmp,
                               [widget |-> "change"], QuietEnv)} :
          Commit(r, [widget |-> "change"], QuietEnv)

\* the values one edit of one input widget of the generator screen can give
WidgetEdits(w) ==
    {[w EXCEPT !.genre = v] : v \in Offered(GENRES, NumOptions)}
    \cup {[w EXCEPT !.character_name = v] : v \in CharacterNames}
    \cup {[w EXCEPT !.additional_details = v] : v \in AdditionalDetails}
    \cup {[w EXCEPT !.character_traits = v] :
            v \in multiselect_edits(w.character_traits, CHARACTER_TRAITS, max_selections)}
    \cup {[w EXCEPT !.themes = v] :
            v \in multiselect_edits(w.themes, THEMES, max_selections)}

\* the user edits an input widget of the generator screen: the script reruns
\* with no button pressed
EditWidget ==
    /\ screen = "generator"
    /\ \E w \in WidgetEdits(widgets) \ {widgets} :
          \E r \in {Interaction(session_state, w, files, ntmp, NoClick, QuietEnv)} :
              Commit(r, NoClick, QuietEnv)

\* the user presses "Generate Story"
Generate ==
    /\ screen = "generator"
    /\ \E env \in GenerateEnvs :
          \E r \in {Interaction(session_state, widgets, files, ntmp,
                                 [widget |-> "generate"], env)} :
              /\ r.ntmp <= MaxTmpFiles
              /\ Commit(r, [widget |-> "generate"], env)

Next == SubmitApiKey \/ ChangeApiKey \/ EditWidget \/ Generate

Spec == Init /\ [][Next]_vars

(***************************************************************************)
(* Vocabulary of the properties.                                           *)
(***************************************************************************)
Accepted == session_state.api_key_submitted

\* the external calls of the last interaction, in the order they were issued
Calls(l) == SelectSeq(l, LAMBDA e : e.ev = "call")
Services(l) == [i \in DOMAIN Calls(l) |-> Calls(l)[i].arg.svc]
Called(l, svc) == \E i \in DOMAIN l : l[i].ev = "call" /\ l[i].arg.svc = svc

Shown(l, ev) == \E i \in DOMAIN l : l[i].ev = ev
ShownText(l, ev, text) == \E i \in DOMAIN l : l[i].ev = ev /\ l[i].arg = text

Pressed(button) == request.click.widget = button

\* the story returned to the caller by the text-generation call of the last
\* interaction
TextReturned ==
    /\ Pressed("generate")
    /\ Called(log, "text")
    /\ ~request.env.text_raises
    /\ request.env.text_content # ""

TextFailed ==
    /\ Pressed("generate")
    /\ Called(log, "text")
    /\ request.env.text_raises

SpeechFailed ==
    /\ Pressed("generate")
    /\ Called(log, "speech")
    /\ request.env.speech_raises

\* C1: the generator screen is rendered only while api_key_submitted is true;
\* while it is false the page shows the credential gate, and no
\* text-generation or speech-synthesis call is issued.
C1_GeneratorOnlyWhenAccepted ==
    /\ screen \in {"gate", "generator"}
    /\ screen = "generator" => Accepted
    /\ ~Accepted => screen = "gate"
    /\ \A i \in DOMAIN log :
          /\ log[i].ev = "title" /\ log[i].arg = "generator" => log[i].accepted
          /\ log[i].ev = "call" /\ log[i].arg.svc \in {"text", "speech"}
                => log[i].accepted

\* the gate is shown again after a story was generated and the key changed
C1_Witness ==
    /\ screen = "gate"
    /\ session_state.current_story # None
    /\ Pressed("change")

\* C2: a gate submission with a non-empty key whose validation call does not
\* fail sets api_key_submitted, stores a client and shows the generator; with
\* an empty key or a failed validation call it leaves the session state as it
\* was, api_key_submitted false, the gate shown, and shows an error.
C2_GateSubmission ==
    [][Pressed("submit")' =>
        IF request'.click.api_key # "" /\ ~request'.env.validate_raises
        THEN /\ session_state'.api_key_submitted = TRUE
             /\ session_state'.client = OpenAI(request'.click.api_key)
             /\ session_state'.client # None
             /\ screen' = "generator"
        ELSE /\ session_state' = session_state
             /\ session_state'.api_key_submitted = FALSE
             /\ screen' = "gate"
             /\ Shown(log', "error")]_vars

\* a key was accepted in a session that already holds a story
C2_Witness ==
    /\ Pressed("submit")
    /\ Accepted
    /\ session_state.current_story # None

\* C3: when the text-generation call succeeds and the speech-synthesis call
\* fails, the text is displayed and the text download is offered, and neither
\* the audio player nor the audio download is shown.
C3_TextOfferedWithoutAudio ==
    TextReturned /\ SpeechFailed =>
        /\ ShownText(log, "write", request.env.text_content)
        /\ ShownText(log, "download_text", request.env.text_content)
        /\ ~Shown(log, "audio")
        /\ ~Shown(log, "download_audio")

\* C4: when the text-generation call of a Generate fails, no speech-synthesis
\* call is issued in that interaction and current_story keeps its value.
C4_FailedTextStopsPipeline ==
    [][TextFailed' =>
        /\ ~Called(log', "speech")
        /\ session_state'.current_story = session_state.current_story]_vars

\* a failed generation in a session that holds an earlier story
C4_Witness ==
    /\ TextFailed
    /\ session_state.current_story # None

\* a required field of the generator screen is missing
Missing(w) ==
    \/ w.genre \in {None, ""}
    \/ w.tone \in {None, ""}
    \/ w.setting \in {None, ""}
    \/ w.character_type \in {None, ""}
    \/ w.character_traits = <<>>
    \/ w.themes = <<>>

\* C5: a Generate with a required field missing shows a warning, issues no
\* external call and leaves the session state unchanged.
C5_IncompleteAborts ==
    [][Pressed("generate")' /\ Missing(widgets) =>
        /\ Shown(log', "warning")
        /\ Calls(log') = <<>>
        /\ session_state' = session_state]_vars

\* a Generate with traits chosen and no theme, in a session holding a story
C5_Witness ==
    /\ Pressed("generate")
    /\ Missing(widgets)
    /\ widgets.character_traits # <<>>
    /\ Shown(log, "warning")
    /\ session_state.current_story # None

\* a gate submission whose validation call succeeded
KeyAccepted ==
    /\ Pressed("submit")
    /\ request.click.api_key # ""
    /\ ~request.env.validate_raises

\* C6 as stated: changing the key resets the whole session state to its
\* initial value and shows the gate; only that and an accepted key change the
\* session state.
C6_ChangeResetsAll ==
    [][/\ Pressed("change")' =>
            /\ session_state'.api_key_submitted = FALSE
            /\ session_state'.client = None
            /\ session_state'.current_story = None
            /\ screen' = "gate"
       /\ session_state' # session_state => Pressed("change")' \/ KeyAccepted']_vars

\* C6 as amended: changing the key clears api_key_submitted and client, keeps
\* current_story and shows the gate; api_key_submitted and client change only
\* then and when a key is accepted; current_story changes only when the text
\* generation of a Generate returns a non-empty text, and becomes that text.
C6_ChangeResetsCredential ==
    [][/\ Pressed("change")' =>
            /\ session_state'.api_key_submitted = FALSE
            /\ session_state'.client = None
            /\ session_state'.current_story = session_state.current_story
            /\ screen' = "gate"
       /\ \/ session_state'.api_key_submitted # session_state.api_key_submitted
          \/ session_state'.client # session_state.client
          => Pressed("change")' \/ KeyAccepted'
       /\ session_state'.current_story # session_state.current_story
          => /\ TextReturned'
             /\ session_state'.current_story = request'.env.text_content]_vars

\* the key was changed in a session that holds a story
C6_Witness ==
    /\ Pressed("change")
    /\ ~Accepted
    /\ session_state.client = None
    /\ session_state.current_story # None

\* C7: an interaction issues its external calls one after the other, each at
\* most once: nothing, or the validation call alone (a gate submission), or
\* the text call alone, or the text call followed by the speech call.  The
\* speech call follows a text call that returned a story, and a Generate
\* whose two calls succeed issued exactly one of each.
C7_CallDiscipline ==
    /\ Services(log) \in {<<>>, <<"validate">>, <<"text">>, <<"text", "speech">>}
    /\ Pressed("submit") => Services(log) \in {<<>>, <<"validate">>}
    /\ ~Pressed("submit") => ~Called(log, "validate")
    /\ Called(log, "speech") => TextReturned
    /\ TextReturned => Services(log) = <<"text", "speech">>
    /\ TextFailed => Services(log) = <<"text">>

\* both calls of a Generate succeeded
C7_Witness ==
    /\ TextReturned
    /\ Services(log) = <<"text", "speech">>
    /\ ~request.env.speech_raises
    /\ Shown(log, "audio")

\* the temporary files the last interaction created
Created(l) == {l[i].arg : i \in {j \in DOMAIN l : l[j].ev = "tmp_create"}}

\* C8: every temporary file a Generate creates is gone when the Generate
\* ends, whether the speech synthesis succeeded or failed, and it is still on
\* disk when the audio player and the audio download read it.
C8_TempFilesDeleted ==
    Pressed("generate") =>
        /\ Created(log) \cap files = {}
        /\ \A i \in DOMAIN log :
              log[i].ev \in {"audio", "download_audio"} => log[i].arg.readable

\* the position in a prompt of the piece that follows the given label
After(prompt, label) == 1 + CHOOSE i \in DOMAIN prompt : prompt[i] = label

\* C9: the character name of the assembled story parameters is "the
\* protagonist" when the name field is empty and the entered name otherwise,
\* and that value is the character name of the prompt that is sent.
C9_CharacterName ==
    \A i \in DOMAIN log :
        log[i].ev = "call" /\ log[i].arg.svc = "text" =>
            LET name == IF widgets.character_name = ""
                           THEN "the protagonist" ELSE widgets.character_name
                prompt == log[i].arg.input
            IN  /\ StoryParams(widgets).character_name = name
                /\ Len(SelectSeq(prompt, LAMBDA x : x = "Character Name: ")) = 1
                /\ prompt[After(prompt, "Character Name: ")] = name

\* a prompt was sent with the name field left empty
C9_Witness ==
    /\ Called(log, "text")
    /\ widgets.character_name = ""
    /\ \E i \in DOMAIN log :
          /\ log[i].ev = "call"
          /\ log[i].arg.svc = "text"
          /\ \E j \in DOMAIN log[i].arg.input :
                log[i].arg.input[j] = "the protagonist"

\* C10: between interactions api_key_submitted is true exactly when a client
\* is stored, and every text-generation and speech-synthesis call is made
\* with a client.
C10_AcceptedIffClient ==
    /\ Accepted <=> session_state.client # None
    /\ \A i \in DOMAIN log :
          log[i].ev = "call" /\ log[i].arg.svc \in {"text", "speech"}
              => log[i].arg.client # None

\* a speech-synthesis call was made after the key was changed once
C10_Witness ==
    /\ Accepted
    /\ session_state.client = OpenAI("sk-other")
    /\ Called(log, "speech")

====
